---------------------------- MODULE Spec2Model ----------------------------
(***************************************************************************)
(* Model of the video thumbnail generator (index.js).                      *)
(*                                                                         *)
(* The module holds two state machines over one set of variables:          *)
(*   Spec      the Lambda handler (exports.handler), NumInv invocations    *)
(*             that may overlap in one Node.js process.  Every action is   *)
(*             one run-to-completion step of the event loop: the code      *)
(*             between two awaits, the synchronous cleanup included.       *)
(*   SpecSize  the size computation of generateThumbnail, applied to       *)
(*             every source geometry of a bounded grid.                    *)
(* Events are JSON values (a Lambda payload), so the JSON.stringify calls  *)
(* that only log cannot throw and are not modelled.                        *)
(***************************************************************************)
EXTENDS Integers, Sequences, FiniteSets

VARIABLES
    pc,       \* pc[i]: where invocation i of handler stands
    req,      \* req[i]: the body handler parsed from the event
    resp,     \* resp[i]: the response handler returned
    log,      \* log[i]: the stages invocation i started and ended, in order
    putCalls, \* putCalls[i]: the PutObjectCommands invocation i sent
    files,    \* the two staged files under tmpDir: the invocations whose
              \* video the content may come from, {} for an absent file
    reading,  \* reading[i]: what the staged video held when i started ffmpeg
    store,    \* the puts the object store completed
    left,     \* left[i]: the staged files existing when i returned
    overlap,  \* overlap[i]: i was in flight together with another invocation
    geo,      \* generateThumbnail: the probed <<width, height>>
    size,     \* generateThumbnail: the computed <<width, height>>
    spc       \* generateThumbnail: "probe" before, "done" after the computation

hvars == <<pc, req, resp, log, putCalls, files, reading, store, left, overlap>>
svars == <<geo, size, spc>>
vars ==
    <<pc, req, resp, log, putCalls, files, reading, store, left, overlap,
      geo, size, spc>>

----------------------------------------------------------------------------
(* Bounds *)

NumInv == 2          \* invocations of handler in one process
MaxW == 90           \* source widths 1..MaxW
MaxH == 170          \* source heights 1..MaxH

Inv == 1..NumInv

----------------------------------------------------------------------------
(* JavaScript values of the request *)

Undefined == [t |-> "undefined", s |-> <<>>]
Str(s) == [t |-> "string", s |-> s]
Num == [t |-> "number", s |-> <<"7">>]

\* !v of JavaScript: undefined and the empty string are falsy.
Falsy(v) == v.t = "undefined" \/ (v.t = "string" /\ v.s = <<>>)

Suffix == <<"_", "t", "h", "u", "m", "b", "n", "a", "i", "l", ".", "j", "p", "g">>

\* Object keys the requests name: v/a.m (an extension), v/a (none), v.d/a (the
\* only dot in a directory segment), a. (ends in a dot), a.b.m (two dots).
SampleKeys ==
    { <<"v", "/", "a", ".", "m">>,
      <<"v", "/", "a">>,
      <<"v", ".", "d", "/", "a">>,
      <<"a", ".">>,
      <<"a", ".", "b", ".", "m">> }

Buckets == { <<"b", "1">>, <<"b", "2">> }

BucketValues == {Undefined, Str(<<>>)} \cup {Str(b) : b \in Buckets}
FilepathValues == {Undefined, Str(<<>>), Num} \cup {Str(k) : k \in SampleKeys}

Null == [t |-> "null", bucket |-> Undefined, filepath |-> Undefined]
NoBody == [t |-> "undefined", bucket |-> Undefined, filepath |-> Undefined]
Obj(b, f) == [t |-> "object", bucket |-> b, filepath |-> f]

BodyValues == {Null} \cup {Obj(b, f) : b \in BucketValues, f \in FilepathValues}

\* event.body: absent, an object, or a string: a JSON text of a value, or
\* text that is no JSON at all.
Events ==
    {[t |-> "undefined", wellFormed |-> TRUE, val |-> NoBody]}
    \cup {[t |-> "object", wellFormed |-> TRUE, val |-> v] : v \in BodyValues}
    \cup {[t |-> "string", wellFormed |-> TRUE, val |-> v] : v \in BodyValues}
    \cup {[t |-> "string", wellFormed |-> FALSE, val |-> NoBody]}

\* typeof event.body === 'string' ? JSON.parse(event.body) : event.body,
\* then const { bucket, filepath } = body: ok is FALSE where the code throws.
ParseBody(ev) ==
    IF ev.t = "string" /\ ~ev.wellFormed
    THEN [ok |-> FALSE, error |-> "SyntaxError", val |-> NoBody]
    ELSE IF ev.val.t \in {"undefined", "null"}
    THEN [ok |-> FALSE, error |-> "TypeError", val |-> ev.val]
    ELSE [ok |-> TRUE, error |-> "", val |-> ev.val]

MissingParams_And(body) == Falsy(body.bucket) /\ Falsy(body.filepath)

\* if (!bucket || !filepath)
MissingParams(body) == Falsy(body.bucket) \/ Falsy(body.filepath)

----------------------------------------------------------------------------
(* filepath.replace(/\.[^/.]+$/, '_thumbnail.jpg') *)

\* The regular expression matches at p: a dot at p, then one or more
\* characters up to the end, none of them a slash or a dot.
MatchesAt(s, p) ==
    /\ s[p] = "."
    /\ p < Len(s)
    /\ \A q \in (p + 1)..Len(s) : s[q] \notin {"/", "."}

MatchPositions(s) == {p \in 1..Len(s) : MatchesAt(s, p)}

thumbnailKey_Append(s) == s \o Suffix

\* replace with a regular expression without the g flag: the leftmost match
\* is replaced, and a string without a match is returned as it is.
thumbnailKey(s) ==
    IF MatchPositions(s) = {}
    THEN s
    ELSE LET p == CHOOSE x \in MatchPositions(s) :
                      \A y \in MatchPositions(s) : x <= y
         IN SubSeq(s, 1, p - 1) \o Suffix

----------------------------------------------------------------------------
(* The staged files and their cleanup *)

Staged == {"input", "thumb"}      \* tmp/input.mp4 and tmp/thumbnail.jpg

NoFiles == [input |-> {}, thumb |-> {}]

Existing(fs) == {f \in Staged : fs[f] # {}}

\* fs.unlinkSync(path): throws ENOENT for a missing file; fault is the
\* file system refusing to remove an existing one (EPERM, EBUSY, EIO).
UnlinkSync(fs, f, fault) ==
    IF fs[f] = {} THEN [ok |-> FALSE, error |-> "ENOENT", fs |-> fs]
    ELSE IF fault THEN [ok |-> FALSE, error |-> "EPERM", fs |-> fs]
    ELSE [ok |-> TRUE, error |-> "", fs |-> [fs EXCEPT ![f] = {}]]

\* The two unlinkSync calls after the upload: the second runs only when the
\* first did not throw.
SuccessCleanup(fs, f1, f2) ==
    LET r1 == UnlinkSync(fs, "input", f1)
    IN IF r1.ok THEN UnlinkSync(r1.fs, "thumb", f2) ELSE r1

\* The cleanup of the catch block: both removals stand in one try, so a
\* throw of the first skips the second; the throw itself is only logged.
CatchCleanup(fs, f3, f4) ==
    LET r1 == IF fs.input # {} THEN UnlinkSync(fs, "input", f3)
              ELSE [ok |-> TRUE, error |-> "", fs |-> fs]
    IN IF ~r1.ok THEN r1.fs
       ELSE IF r1.fs.thumb # {} THEN UnlinkSync(r1.fs, "thumb", f4).fs
       ELSE r1.fs

----------------------------------------------------------------------------
(* The handler *)

Ev(stage, ev) == [stage |-> stage, ev |-> ev]

NoReq == NoBody
NoResp == [status |-> 0, thumbnailPath |-> <<>>, error |-> ""]

InFlightPcs == {"get", "pipe", "extract", "put"}
InFlight == {j \in Inv : pc[j] \in InFlightPcs}

Init ==
    /\ pc = [i \in Inv |-> "idle"]
    /\ req = [i \in Inv |-> NoReq]
    /\ resp = [i \in Inv |-> NoResp]
    /\ log = [i \in Inv |-> <<>>]
    /\ putCalls = [i \in Inv |-> <<>>]
    /\ files = NoFiles
    /\ reading = [i \in Inv |-> {}]
    /\ store = {}
    /\ left = [i \in Inv |-> {}]
    /\ overlap = [i \in Inv |-> FALSE]
    /\ geo = <<0, 0>>
    /\ size = <<0, 0>>
    /\ spc = "off"

\* The catch block: cleanup, then the status-500 response.  lg is the log of
\* the invocation up to the throw and fs the staged files at the throw.
Thrown(i, error, lg, fs, f3, f4) ==
    /\ pc' = [pc EXCEPT ![i] = "returned"]
    /\ resp' = [resp EXCEPT ![i] =
                  [status |-> 500, thumbnailPath |-> <<>>, error |-> error]]
    /\ files' = CatchCleanup(fs, f3, f4)
    /\ left' = [left EXCEPT ![i] = Existing(CatchCleanup(fs, f3, f4))]
    /\ log' = [log EXCEPT ![i] =
                 lg \o <<Ev("cleanup", "start"), Ev("cleanup", "end")>>]

\* handler is called: the body is parsed and validated and, when both
\* parameters are there, the GetObjectCommand is sent and awaited.
Start(i) ==
    /\ pc[i] = "idle"
    /\ \A j \in 1..(i - 1) : pc[j] # "idle"     \* numbered as they arrive
    /\ \E ev \in Events, f3, f4 \in BOOLEAN :
         LET p == ParseBody(ev) IN
         /\ req' = [req EXCEPT ![i] = p.val]
         /\ IF ~p.ok
            THEN Thrown(i, p.error, <<>>, files, f3, f4)
            ELSE IF MissingParams(p.val)
            THEN Thrown(i, "Missing required parameters", <<>>, files, f3, f4)
            ELSE /\ pc' = [pc EXCEPT ![i] = "get"]
                 /\ log' = [log EXCEPT ![i] = <<Ev("download", "start")>>]
                 /\ UNCHANGED <<resp, files, left>>
    /\ overlap' = [j \in Inv |->
                     IF InFlight # {} /\ j \in InFlight \cup {i}
                     THEN TRUE ELSE overlap[j]]
    /\ UNCHANGED <<putCalls, reading, store, svars>>

\* s3Client.send(getCommand) rejects.
GetFail(i) ==
    /\ pc[i] = "get"
    /\ \E f3, f4 \in BOOLEAN :
         Thrown(i, "StorageReadError", log[i] \o <<Ev("download", "fail")>>,
                files, f3, f4)
    /\ UNCHANGED <<req, putCalls, reading, store, overlap, svars>>

GetOk_NoAwait(i) ==
    /\ pc[i] = "get"
    /\ pc' = [pc EXCEPT ![i] = "extract"]
    /\ files' = [files EXCEPT !.input = {i}]
    /\ reading' = [reading EXCEPT ![i] = {i}]
    /\ log' = [log EXCEPT ![i] = @ \o <<Ev("extract", "start")>>]
    /\ UNCHANGED <<req, resp, putCalls, store, left, overlap, svars>>

\* The get resolves: createWriteStream(tmpVideoPath) opens (and truncates)
\* the staged video and the body is piped into it.  The invocations still
\* piping write to the same path: the file may hold bytes of each.
GetOk(i) ==
    /\ pc[i] = "get"
    /\ pc' = [pc EXCEPT ![i] = "pipe"]
    /\ files' = [files EXCEPT !.input = {i} \cup {j \in Inv : pc[j] = "pipe"}]
    /\ UNCHANGED <<req, resp, log, putCalls, reading, store, left, overlap,
                   svars>>

\* The write stream emits 'error': the promise rejects.
PipeWriteError(i) ==
    /\ pc[i] = "pipe"
    /\ \E f3, f4 \in BOOLEAN :
         Thrown(i, "LocalWriteError", log[i] \o <<Ev("download", "fail")>>,
                files, f3, f4)
    /\ UNCHANGED <<req, putCalls, reading, store, overlap, svars>>

\* response.Body emits 'error' part-way: pipe() returns the write stream, so
\* the only listeners are on the write stream.  The event has no listener
\* on the source, Node throws it as an uncaught exception, and the awaited
\* promise is never settled.  The process ends, and with it every
\* invocation in flight.
PipeSourceError(i) ==
    /\ pc[i] = "pipe"
    /\ pc' = [j \in Inv |-> IF j \in InFlight THEN "crashed" ELSE pc[j]]
    /\ log' = [log EXCEPT ![i] = @ \o <<Ev("download", "fail")>>]
    /\ UNCHANGED <<req, resp, putCalls, files, reading, store, left, overlap,
                   svars>>

\* The write stream emits 'finish'; the handler calls
\* ffmpeg(tmpVideoPath).screenshots(...) and awaits its 'end' or 'error'.
PipeFinish(i) ==
    /\ pc[i] = "pipe"
    /\ pc' = [pc EXCEPT ![i] = "extract"]
    /\ log' = [log EXCEPT ![i] =
                 @ \o <<Ev("download", "end"), Ev("extract", "start")>>]
    /\ reading' = [reading EXCEPT ![i] = files.input]
    /\ UNCHANGED <<req, resp, putCalls, files, store, left, overlap, svars>>

Screenshot_KeepExisting(fs, o) ==
    IF fs.thumb # {} THEN fs ELSE [fs EXCEPT !.thumb = {o}]

\* screenshots({filename: 'thumbnail.jpg', folder: tmpDir, ...}): a frame
\* of the video of o replaces whatever thumbnail.jpg held.
Screenshot(fs, o) == [fs EXCEPT !.thumb = {o}]

\* The PutObjectCommand of the handler; its Body is a read stream of the
\* staged thumbnail, which holds a frame of the video of o.
PutCommand(i, o) ==
    [bucket |-> req[i].bucket.s,
     key |-> thumbnailKey(req[i].filepath.s),
     contentType |-> "image/jpeg",
     body |-> o]

\* ffmpeg emits 'end': a frame of the staged video is in thumbnail.jpg.
\* ffmpeg read the file while other invocations could rewrite it: the frame
\* comes from what the file held when ffmpeg started or holds now.  The
\* handler computes the key (filepath.replace throws a TypeError for a
\* filepath that is no string) and sends the put.
ExtractEnd(i) ==
    /\ pc[i] = "extract"
    /\ \E o \in reading[i] \cup files.input :
         LET fs == Screenshot(files, o)
             lg == log[i] \o <<Ev("extract", "end")>>
         IN IF req[i].filepath.t # "string"
            THEN /\ \E f3, f4 \in BOOLEAN :
                      Thrown(i, "TypeError", lg, fs, f3, f4)
                 /\ UNCHANGED putCalls
            ELSE /\ pc' = [pc EXCEPT ![i] = "put"]
                 /\ files' = fs
                 /\ log' = [log EXCEPT ![i] = lg \o <<Ev("upload", "start")>>]
                 /\ \E b \in fs.thumb :
                      putCalls' = [putCalls EXCEPT ![i] =
                                     Append(@, PutCommand(i, b))]
                 /\ UNCHANGED <<resp, left>>
    /\ UNCHANGED <<req, reading, store, overlap, svars>>

ExtractFail_Resolve(i) ==
    /\ pc[i] = "extract"
    /\ req[i].filepath.t = "string"
    /\ pc' = [pc EXCEPT ![i] = "put"]
    /\ log' = [log EXCEPT ![i] =
                 @ \o <<Ev("extract", "fail"), Ev("upload", "start")>>]
    /\ \E b \in reading[i] \cup files.input :
         putCalls' = [putCalls EXCEPT ![i] = Append(@, PutCommand(i, b))]
    /\ UNCHANGED <<req, resp, files, reading, store, left, overlap, svars>>

\* ffmpeg emits 'error': the promise rejects.
ExtractFail(i) ==
    /\ pc[i] = "extract"
    /\ \E f3, f4 \in BOOLEAN :
         Thrown(i, "ExtractionError", log[i] \o <<Ev("extract", "fail")>>,
                files, f3, f4)
    /\ UNCHANGED <<req, putCalls, reading, store, overlap, svars>>

\* The put rejects: the store refuses it, or the staged thumbnail it is to
\* read is gone.
PutFail(i) ==
    /\ pc[i] = "put"
    /\ \E f3, f4 \in BOOLEAN :
       \E e \in {"StorageWriteError"} \cup
                 (IF files.thumb = {} THEN {"ENOENT"} ELSE {}) :
         Thrown(i, e, log[i] \o <<Ev("upload", "fail")>>, files, f3, f4)
    /\ UNCHANGED <<req, putCalls, reading, store, overlap, svars>>

\* The put resolves: the store holds under the key what the read stream
\* gave, the thumbnail as it was when the put was sent or as it is now.
\* Then the staged files are removed and the 200 response returned; an
\* unlinkSync that throws is caught like every other error.
PutOk(i) ==
    /\ pc[i] = "put"
    /\ LET cmd == putCalls[i][Len(putCalls[i])]
           lg == log[i] \o <<Ev("upload", "end"), Ev("cleanup", "start")>>
       IN /\ \E o \in {cmd.body} \cup files.thumb :
               store' = store \cup
                   {[inv |-> i, bucket |-> cmd.bucket, key |-> cmd.key,
                     contentType |-> cmd.contentType, origin |-> o]}
          /\ \E f1, f2, f3, f4 \in BOOLEAN :
               LET r == SuccessCleanup(files, f1, f2) IN
               IF r.ok
               THEN /\ pc' = [pc EXCEPT ![i] = "returned"]
                    /\ resp' = [resp EXCEPT ![i] =
                                  [status |-> 200, thumbnailPath |-> cmd.key,
                                   error |-> ""]]
                    /\ files' = r.fs
                    /\ left' = [left EXCEPT ![i] = Existing(r.fs)]
                    /\ log' = [log EXCEPT ![i] = lg \o <<Ev("cleanup", "end")>>]
               ELSE Thrown(i, r.error, lg \o <<Ev("cleanup", "fail")>>,
                           r.fs, f3, f4)
    /\ UNCHANGED <<req, putCalls, reading, overlap, svars>>

Next ==
    \E i \in Inv :
        \/ Start(i)
        \/ GetFail(i)
        \/ GetOk(i)
        \/ PipeWriteError(i)
        \/ PipeSourceError(i)
        \/ PipeFinish(i)
        \/ ExtractEnd(i)
        \/ ExtractFail(i)
        \/ PutFail(i)
        \/ PutOk(i)

Spec == Init /\ [][Next]_vars

----------------------------------------------------------------------------
(* generateThumbnail: the size of the frame *)

BaseWidth == 360

\* Math.round(n / d) for positive integers: the quotient is a half-integer
\* only when it is one exactly, and Math.round rounds a half up.
Round(n, d) == (2 * n + d) \div (2 * d)

RECURSIVE Pow2Mod(_, _)
Pow2Mod(p, d) == IF p = 0 THEN 1 % d ELSE (2 * Pow2Mod(p - 1, d)) % d

\* The binary64 quotient n/d with a significand of p fractional bits is
\* round(n * 2^p / d) / 2^p; this is d times the rounding error of the
\* significand (no quotient used here lies half-way between two doubles).
RoundErr(n, d, p) ==
    LET rem == ((n % d) * Pow2Mod(p, d)) % d
    IN IF 2 * rem < d THEN 0 - rem ELSE d - rem

\* originalRatio - targetRatio > 0.1 where h/w is 169/90, 0.1 above 16/9 as
\* a real number.  Both quotients lie in [1, 2) (52 fractional bits), their
\* difference is exact, and 0.1 is round(2^56 / 10) / 2^56; the real parts
\* cancel and the comparison is one of the three rounding errors, here in
\* units of 1/90 of 2^-56.
UpperTieExceeds ==
    16 * (RoundErr(169, 90, 52) - 10 * RoundErr(16, 9, 52))
        - 9 * RoundErr(1, 10, 56) > 0

\* targetRatio - originalRatio > 0.1 where h/w is 151/90, 0.1 below 16/9.
LowerTieExceeds ==
    16 * (10 * RoundErr(16, 9, 52) - RoundErr(151, 90, 52))
        - 9 * RoundErr(1, 10, 56) > 0

\* Math.abs(originalRatio - targetRatio) > 0.1 in binary64.  Off the two
\* ties the real difference is at least 1/(90 w) away from 0.1, far more
\* than the rounding errors, and the doubles compare as the reals do.
ExceedsTolerance(w, h) ==
    IF 10 * (9 * h - 16 * w) = 9 * w THEN UpperTieExceeds
    ELSE IF 10 * (16 * w - 9 * h) = 9 * w THEN LowerTieExceeds
    ELSE 10 * (9 * h - 16 * w) > 9 * w \/ 10 * (16 * w - 9 * h) > 9 * w

\* The width and height generateThumbnail passes to screenshots.
TargetSize(w, h) ==
    LET width == BaseWidth
        height == Round(width * 16, 9)
    IN IF ExceedsTolerance(w, h)
       THEN IF 9 * h > 16 * w
            THEN <<width, Round(width * h, w)>>
            ELSE <<Round(height * w, h), height>>
       ELSE <<width, height>>

Geometries ==
    ((1..MaxW) \X (1..MaxH)) \cup {<<1080, 1920>>, <<1920, 1080>>}

InitSize ==
    /\ pc = [i \in Inv |-> "idle"]
    /\ req = [i \in Inv |-> NoReq]
    /\ resp = [i \in Inv |-> NoResp]
    /\ log = [i \in Inv |-> <<>>]
    /\ putCalls = [i \in Inv |-> <<>>]
    /\ files = NoFiles
    /\ reading = [i \in Inv |-> {}]
    /\ store = {}
    /\ left = [i \in Inv |-> {}]
    /\ overlap = [i \in Inv |-> FALSE]
    /\ geo = <<0, 0>>
    /\ size = <<0, 0>>
    /\ spc = "probe"

\* ffprobe calls back with an error: getVideoDimensions rejects.
ProbeFail ==
    /\ spc = "probe"
    /\ spc' = "rejected"
    /\ UNCHANGED <<geo, size, hvars>>

\* ffprobe calls back with the metadata: getVideoDimensions resolves with
\* streams[0], the size is computed and screenshots is called.
ProbeOk ==
    /\ spc = "probe"
    /\ \E g \in Geometries :
         /\ geo' = g
         /\ size' = TargetSize(g[1], g[2])
    /\ spc' = "shoot"
    /\ UNCHANGED hvars

\* screenshots emits 'end'.
ShotEnd ==
    /\ spc = "shoot"
    /\ spc' = "resolved"
    /\ UNCHANGED <<geo, size, hvars>>

\* screenshots emits 'error'.
ShotError ==
    /\ spc = "shoot"
    /\ spc' = "rejected"
    /\ UNCHANGED <<geo, size, hvars>>

NextSize == ProbeFail \/ ProbeOk \/ ShotEnd \/ ShotError

SpecSize == InitSize /\ [][NextSize]_vars

----------------------------------------------------------------------------
(* Properties *)

Has(lg, stage, ev) == \E k \in 1..Len(lg) : lg[k] = Ev(stage, ev)

PutsOf(i) == {p \in store : p.inv = i}

\* A key's file extension: the last dot and what follows it, when that is
\* not empty and lies in the last segment of the key.
LastDot(s) == CHOOSE p \in 1..Len(s) :
                  s[p] = "." /\ \A q \in (p + 1)..Len(s) : s[q] # "."

HasExtension(s) ==
    /\ \E p \in 1..Len(s) : s[p] = "."
    /\ LastDot(s) < Len(s)
    /\ \A q \in LastDot(s)..Len(s) : s[q] # "/"

\* The key with its extension replaced; there is nothing to replace in a
\* key without one.
ReplaceExtension(s) ==
    IF HasExtension(s) THEN SubSeq(s, 1, LastDot(s) - 1) \o Suffix ELSE s

EndsWith(s, t) ==
    Len(s) >= Len(t) /\ SubSeq(s, Len(s) - Len(t) + 1, Len(s)) = t

\* C1: an invocation that returned 200 sent exactly one put, to the bucket
\* of its request, under the filepath with its extension replaced by
\* _thumbnail.jpg, as image/jpeg, and answered with that key.
C1_SuccessPut ==
    \A i \in Inv :
        resp[i].status = 200 =>
            /\ Len(putCalls[i]) = 1
            /\ putCalls[i][1].bucket = req[i].bucket.s
            /\ putCalls[i][1].key = ReplaceExtension(req[i].filepath.s)
            /\ putCalls[i][1].contentType = "image/jpeg"
            /\ resp[i].thumbnailPath = putCalls[i][1].key
            /\ \E p \in PutsOf(i) : p.key = putCalls[i][1].key

C1_Witness ==
    \E i \in Inv :
        /\ resp[i].status = 200
        /\ req[i].filepath.s = <<"v", "/", "a", ".", "m">>
        /\ resp[i].thumbnailPath = <<"v", "/", "a">> \o Suffix

\* C2: an invocation that can take no further step has returned a response
\* of status 200 or 500: nothing escapes as an uncaught error and no
\* promise is left unsettled.
C2_NeverEscapes ==
    \A i \in Inv :
        pc[i] \notin InFlightPcs \cup {"idle"} =>
            pc[i] = "returned" /\ resp[i].status \in {200, 500}

Lacks(v) == v.t = "undefined" \/ v.s = <<>>

CallsNothing(i) ==
    /\ \A k \in 1..Len(log[i]) :
           log[i][k].stage \notin {"download", "probe", "extract", "upload"}
    /\ putCalls[i] = <<>>
    /\ PutsOf(i) = {}

\* C3: a request whose body lacks bucket or filepath is answered with 500
\* and causes no get, no put and no decoding call.
C3_MissingParams ==
    \A i \in Inv :
        pc[i] # "idle" /\ (Lacks(req[i].bucket) \/ Lacks(req[i].filepath)) =>
            /\ pc[i] = "returned"
            /\ resp[i].status = 500
            /\ CallsNothing(i)

C3_Witness ==
    \E i \in Inv :
        /\ pc[i] = "returned"
        /\ req[i].t = "object"
        /\ ~Lacks(req[i].bucket)
        /\ Lacks(req[i].filepath)
        /\ resp[i].error = "Missing required parameters"

\* C4: when an invocation has returned, neither staged file exists.
C4_CleanupGuarantee ==
    \A i \in Inv : pc[i] = "returned" => left[i] = {}

\* C5: an invocation whose extraction reported an error returns 500 and
\* sends no put.
C5_ExtractionFailure ==
    \A i \in Inv :
        Has(log[i], "extract", "fail") =>
            /\ pc[i] = "returned"
            /\ resp[i].status = 500
            /\ putCalls[i] = <<>>
            /\ PutsOf(i) = {}

C5_Witness ==
    \E i \in Inv :
        /\ Has(log[i], "extract", "fail")
        /\ resp[i].status = 500
        /\ resp[i].error = "ExtractionError"

\* C6: every key the handler writes to ends with _thumbnail.jpg and differs
\* from the source key.
C6_KeyNeverSource ==
    \A i \in Inv : \A k \in 1..Len(putCalls[i]) :
        /\ EndsWith(putCalls[i][k].key, Suffix)
        /\ putCalls[i][k].key # req[i].filepath.s

Ended(e) == e.ev \in {"end", "fail"}

\* Whether stage may start at position k of the log: the download first,
\* an extraction right after the download ended, an upload right after the
\* extraction ended, a cleanup first or after any stage has ended or failed.
MayFollow(stage, lg, k) ==
    CASE stage = "download" -> k = 1
      [] stage = "extract" -> k > 1 /\ lg[k - 1] = Ev("download", "end")
      [] stage = "upload" -> k > 1 /\ lg[k - 1] = Ev("extract", "end")
      [] stage = "cleanup" -> k = 1 \/ Ended(lg[k - 1])
      [] OTHER -> FALSE

Sequential(lg) ==
    \A k \in 1..Len(lg) :
        IF lg[k].ev = "start"
        THEN MayFollow(lg[k].stage, lg, k)
        ELSE k > 1 /\ lg[k - 1] = Ev(lg[k].stage, "start")

RuleSize(w, h) ==
    IF 10 * (9 * h - 16 * w) <= 9 * w /\ 10 * (16 * w - 9 * h) <= 9 * w
    THEN <<360, 640>>
    ELSE IF 9 * h > 16 * w
    THEN <<360, (2 * 360 * h + w) \div (2 * w)>>
    ELSE <<(2 * 640 * w + h) \div (2 * h), 640>>

\* C8: the size is 360x640 when h/w is within 0.1 of 16/9, and otherwise
\* has one dimension recomputed from the source ratio; 1080x1920 gives
\* 360x640 and 1920x1080 gives 1138x640.
C8_AspectRatioRule ==
    spc \in {"shoot", "resolved"} =>
        /\ size = RuleSize(geo[1], geo[2])
        /\ geo = <<1080, 1920>> => size = <<360, 640>>
        /\ geo = <<1920, 1080>> => size = <<1138, 640>>

\* C9: a thumbnail taken from another invocation's video is uploaded, and
\* an invocation fails on a staged file that is gone, only when
\* invocations overlapped.
C9_IsolatedWhenSerial ==
    /\ \A p \in store : p.origin # p.inv => overlap[p.inv]
    /\ \A i \in Inv : resp[i].error = "ENOENT" => overlap[i]

C9_Witness ==
    \E p \in store :
        /\ p.origin # p.inv
        /\ overlap[p.inv]
        /\ p.key = thumbnailKey(req[p.inv].filepath.s)

\* C10: an invocation that returned 500 has completed no put.
C10_FailureMeansNoPut ==
    \A i \in Inv : resp[i].status = 500 => PutsOf(i) = {}

=============================================================================
